---- MODULE Spec2Model ----
(***************************************************************************)
(* Model of the AIR news client: the session state machine of the App      *)
(* component (src/src/App.tsx) and its query pipeline.                     *)
(*                                                                         *)
(* Text is modelled as a sequence of one-character strings so that         *)
(* startsWith, slice and trim are computed as the code computes them.      *)
(* The icons used in message texts are one-element "characters".           *)
(*                                                                         *)
(* React commits the state updates batched by an event handler before the  *)
(* next event is dispatched, and commits the updates made by a resumed     *)
(* async continuation in one render; the values closed over by             *)
(* executeSearch therefore equal the component state at the time of the    *)
(* event, and each handler or continuation is one atomic action.           *)
(*                                                                         *)
(* The two buttons that call executeSearch directly (keyword, refresh)     *)
(* are modelled as clickable whenever they are mounted: their `disabled`   *)
(* attribute is not taken as a guard, so that the lock inside              *)
(* executeSearch (line 192) is what is checked.  The search input and the  *)
(* back button have no lock of their own; their `disabled` attribute is    *)
(* their guard.                                                            *)
(***************************************************************************)
EXTENDS Integers, Sequences, FiniteSets, TLC

VARIABLES query, conversation, isSearching, keywords, lastQuery, rootQuery,
          isNewsSession, isResultMode, nextId, inflight, lastCall, settled,
          feed, resp, title, headline

vars == <<query, conversation, isSearching, keywords, lastQuery, rootQuery,
          isNewsSession, isResultMode, nextId, inflight, lastCall, settled,
          feed, resp, title, headline>>

\* The feed normalizer of the relay: the items of the fetched feed and the
\* response of POST /api/parse-rss; one entry title and its headline.
norm == <<feed, resp, title, headline>>

\* The session state the claims speak about (everything but the ghosts,
\* the search-bar text and the keyword list).
session == <<conversation, isSearching, lastQuery, rootQuery, isNewsSession,
             isResultMode, nextId, inflight>>

----------------------------------------------------------------------------
\* Bounds of the model.

\* executeSearch starts no further pipeline once nextId has reached MaxId.
MaxId == 4

\* The number of items of a feed.
MaxEntries == 3

\* The number of characters of an entry title.
MaxTitle == 5

----------------------------------------------------------------------------
\* Text.

\* JavaScript null (useState<string | null>(null)); no text holds this token.
Null == <<"null">>

NewsIcon == "[news]"
SearchIcon == "[search]"
PlusIcon == "[plus]"
WarnIcon == "[warn]"

\* What the user may type into the search bar.
Typed == { <<>>, <<" ">>, <<"~">>, <<"+">>, <<"a">>, <<"~", " ", "a">>,
           <<"+", "a">> }

\* The lines of /keywords.txt.
KeywordFile == << <<"a", " ">>, <<>>, <<" ", "~">>, <<"+", "a">> >>

\* The texts an external text-generation call may return.
Results == { <<"x">>, <<"y">> }

\* white space (\s, and what trim removes)
IsSpace(c) == c \in {" ", "\n"}

RECURSIVE TrimStart(_)
TrimStart(t) == IF t # <<>> /\ IsSpace(Head(t)) THEN TrimStart(Tail(t)) ELSE t

RECURSIVE TrimEnd(_)
TrimEnd(t) ==
  IF t # <<>> /\ IsSpace(t[Len(t)]) THEN TrimEnd(SubSeq(t, 1, Len(t) - 1))
  ELSE t

\* String.prototype.trim
Trim(t) == TrimEnd(TrimStart(t))

\* String.prototype.startsWith, for a one-character prefix
StartsWith(t, c) == t # <<>> /\ t[1] = c

\* text.slice(1)
Slice1(t) == SubSeq(t, 2, Len(t))

\* `${v}` for a string | null value
Str(v) == IF v = Null THEN <<"n", "u", "l", "l">> ELSE v

\* truthiness of a string | null value
Truthy(v) == v # Null /\ v # <<>>

RECURSIVE SelectNonEmpty(_)
SelectNonEmpty(ls) ==
  IF ls = <<>> THEN <<>>
  ELSE IF Head(ls) # <<>> THEN <<Head(ls)>> \o SelectNonEmpty(Tail(ls))
       ELSE SelectNonEmpty(Tail(ls))

\* parseKeywords: the lines of the file, trimmed, the empty ones dropped.
parseKeywords(lines) ==
  IF lines = <<>> THEN <<>>
  ELSE SelectNonEmpty([i \in 1..Len(lines) |-> Trim(lines[i])])

----------------------------------------------------------------------------
\* Derived values of a render.

\* A summary exists only when a message of type "summary" does.
hasSummary_SummaryOnly ==
  \E i \in 1..Len(conversation) : conversation[i].type = "summary"

\* const hasSummary = conversation.length > 0 (line 161)
hasSummary == Len(conversation) > 0

\* m.type === "summary" && m.initialQuery?.startsWith(NewsIcon)
IsNewsSummary(m) ==
  m.type = "summary" /\ m.initialQuery # Null /\ StartsWith(m.initialQuery, NewsIcon)

\* [...conversation].reverse().find(...)?.text || ""
summaryText ==
  LET idx == { i \in 1..Len(conversation) : IsNewsSummary(conversation[i]) }
  IN IF idx = {} THEN <<>>
     ELSE conversation[CHOOSE i \in idx : \A j \in idx : j <= i].text

\* The message addMsg appends: defaults overridden by the given fields, the
\* id default taking (and advancing) nextId even when msg carries an id.
Msg(id, type, text, isUser, initialQuery) ==
  [id |-> id, type |-> type, text |-> text, isUser |-> isUser,
   initialQuery |-> initialQuery]

----------------------------------------------------------------------------
\* executeSearch: classification (lines 192-211).

\* The lock left out of the guard.
Rejected_NoLock(text) == text = <<>>

\* The guard written with && for ||.
Rejected_And(text) == text = <<>> /\ isSearching

\* if (!text || isSearching) return;
Rejected(text) == text = <<>> \/ isSearching

isGeneral(text) == StartsWith(text, "~")

isMerge(text) == StartsWith(text, "+") /\ hasSummary /\ isNewsSession

clean(text) ==
  Trim(IF isMerge(text) \/ isGeneral(text) THEN Slice1(text) ELSE text)

mode(text, forceNew) ==
  IF isGeneral(text) THEN "general"
  ELSE IF isMerge(text) THEN "merge"
  ELSE IF hasSummary /\ ~forceNew /\ isNewsSession THEN "followup"
  ELSE "rss"

\* const currentCleanQuery = mode === "merge" ? `${lastQuery} + ${clean}` : clean
currentCleanQuery(m, c) ==
  IF m = "merge" THEN Str(lastQuery) \o <<" ", "+", " ">> \o c ELSE c

Call(op, a, b) == [op |-> op, a |-> a, b |-> b]

\* Every pipeline begins with the relay fetch.
FirstCall_RelayAlways(m, c) == Call("relay", c, <<>>)

\* The first external call of a pipeline, issued before executeSearch first
\* suspends (lines 258-270): the relay fetch for rss and merge.
FirstCall(m, c) ==
  CASE m = "general" -> Call("generalSearch", c, <<>>)
    [] m = "followup" -> Call("answerFromSummary", summaryText, c)
    [] OTHER -> Call("relay", c, <<>>)

FirstPc(m) ==
  CASE m = "general" -> "general"
    [] m = "followup" -> "followup"
    [] OTHER -> "relay"

\* An rss query clears the conversation whether or not it is a refresh.
OpenConversation_ClearsAlways(m, c, forceNew) ==
  CASE m = "followup" ->
         Append(conversation,
                Msg(nextId, "question", <<NewsIcon, " ">> \o c, TRUE, Null))
    [] m = "merge" ->
         Append(conversation,
                Msg(nextId, "question",
                    <<PlusIcon, " ", "Adding", " ", "\"">> \o c \o <<"\"", "...">>,
                    TRUE, Null))
    [] m = "general" ->
         Append(conversation,
                Msg(nextId, "question", <<SearchIcon, " ">> \o c, TRUE, Null))
    [] OTHER -> <<>>

\* The conversation after the synchronous "UI updates" (lines 219-235).
OpenConversation(m, c, forceNew) ==
  CASE m = "followup" ->
         Append(conversation,
                Msg(nextId, "question", <<NewsIcon, " ">> \o c, TRUE, Null))
    [] m = "merge" ->
         Append(conversation,
                Msg(nextId, "question",
                    <<PlusIcon, " ", "Adding", " ", "\"">> \o c \o <<"\"", "...">>,
                    TRUE, Null))
    [] m = "general" ->
         Append(conversation,
                Msg(nextId, "question", <<SearchIcon, " ">> \o c, TRUE, Null))
    [] OTHER -> IF ~forceNew THEN <<>> ELSE conversation

\* The suspended invocation of executeSearch: its locals, where it waits,
\* the external calls it has issued, and (pre) the session values at the
\* time it was called.
Pipeline(text, forceNew) ==
  LET m == mode(text, forceNew)
      c == clean(text)
  IN [text |-> text, forceNew |-> forceNew, mode |-> m, clean |-> c,
      currentCleanQuery |-> currentCleanQuery(m, c),
      summaryText |-> summaryText,
      pc |-> FirstPc(m),
      calls |-> <<FirstCall(m, c)>>,
      pre |-> [rootQuery |-> rootQuery, lastQuery |-> lastQuery,
               isNewsSession |-> isNewsSession, conversation |-> conversation]]

\* The early return that leaves the lock set.
EmptyReturn_KeepsLock ==
  /\ query' = <<>>
  /\ isSearching' = TRUE
  /\ UNCHANGED <<conversation, lastQuery, rootQuery, isNewsSession,
                 isResultMode, nextId, inflight>>

\* setIsSearching(true); setQuery(""); ...
\* if (!clean) { setIsSearching(false); return; }
EmptyReturn ==
  /\ query' = <<>>
  /\ isSearching' = FALSE
  /\ UNCHANGED <<conversation, lastQuery, rootQuery, isNewsSession,
                 isResultMode, nextId, inflight>>

\* lastQuery written for every mode but followup.
WritesLastQuery_General(m) == m # "followup"

\* if (mode !== "followup" && mode !== "general") setLastQuery(...)
WritesLastQuery(m) == m \notin {"followup", "general"}

\* rootQuery written by merge as well.
WritesRootQuery_Merge(m) == m \notin {"followup", "general"}

\* ... if (mode !== "merge") setRootQuery(clean)
WritesRootQuery(m) == m \notin {"followup", "general"} /\ m # "merge"

\* executeSearch(text, forceNew) up to its first suspension.
ExecuteSearch(text, forceNew) ==
  IF Rejected(text)
  THEN UNCHANGED <<query, session>>
  ELSE IF clean(text) = <<>>
  THEN EmptyReturn
  ELSE LET m == mode(text, forceNew)
           c == clean(text)
       IN /\ nextId < MaxId
          /\ isSearching' = TRUE
          /\ query' = <<>>
          /\ isResultMode' = TRUE
          /\ isNewsSession' = IF m = "rss" THEN TRUE ELSE isNewsSession
          /\ conversation' = OpenConversation(m, c, forceNew)
          /\ nextId' = IF m = "rss" THEN nextId ELSE nextId + 1
          /\ lastQuery' = IF WritesLastQuery(m)
                          THEN currentCleanQuery(m, c) ELSE lastQuery
          /\ rootQuery' = IF WritesRootQuery(m) THEN c ELSE rootQuery
          /\ inflight' = inflight \cup {Pipeline(text, forceNew)}

\* Ghost (lastCall): the submit event handled by the last step, with the
\* state of the lock when it came; NoCall when the last step was no submit
\* event.
NoCall ==
  [ev |-> FALSE, text |-> <<>>, forceNew |-> FALSE, busy |-> FALSE,
   back |-> FALSE]

Event(text, forceNew) ==
  [ev |-> TRUE, text |-> text, forceNew |-> forceNew, busy |-> isSearching,
   back |-> FALSE]

\* Ghost (lastCall): the last step was a click of the back button.
BackClick == [NoCall EXCEPT !.back = TRUE]

\* Ghost (settled): how the pipeline that ended in the last step ended;
\* NoSettle when none did.
NoSettle ==
  [how |-> "none", promise |-> "none", mode |-> "none", forceNew |-> FALSE]

Settled(p, how, promise) ==
  [how |-> how, promise |-> promise, mode |-> p.mode, forceNew |-> p.forceNew]

----------------------------------------------------------------------------
\* Events of the UI.

\* useEffect: /keywords.txt has been fetched (lines 154-159).
KeywordsLoaded ==
  /\ keywords = <<>>
  /\ keywords' = parseKeywords(KeywordFile)
  /\ lastCall' = NoCall
  /\ settled' = NoSettle
  /\ UNCHANGED norm
  /\ UNCHANGED <<query, session>>

\* onChange of the search input (line 86); the input is disabled while
\* searching (line 93).
OnChange(t) ==
  /\ ~isSearching
  /\ query # t
  /\ query' = t
  /\ lastCall' = NoCall
  /\ settled' = NoSettle
  /\ UNCHANGED norm
  /\ UNCHANGED <<session, keywords>>

\* onKeyDown of the search input with Enter (lines 87-92).
OnKeyDownEnter ==
  /\ lastCall' = Event(query, FALSE)
  /\ IF ~isSearching /\ Trim(query) # <<>>
     THEN ExecuteSearch(Trim(query), FALSE)
     ELSE UNCHANGED <<query, session>>
  /\ settled' = NoSettle
  /\ UNCHANGED norm
  /\ UNCHANGED keywords

\* onClick of a keyword of the marquee (lines 389-395, 54).
OnKeywordClick(i) ==
  /\ ~isResultMode
  /\ i \in 1..Len(keywords)
  /\ lastCall' = Event(keywords[i], FALSE)
  /\ ExecuteSearch(keywords[i], FALSE)
  /\ settled' = NoSettle
  /\ UNCHANGED norm
  /\ UNCHANGED keywords

\* onClick of the refresh button (lines 341-345).
OnRefreshClick ==
  /\ isResultMode
  /\ Truthy(rootQuery)
  /\ lastCall' = Event(rootQuery, TRUE)
  /\ ExecuteSearch(rootQuery, TRUE)
  /\ settled' = NoSettle
  /\ UNCHANGED norm
  /\ UNCHANGED keywords

\* reset without setIsNewsSession(false).
reset_KeepsNewsSession ==
  /\ isResultMode
  /\ ~isSearching
  /\ conversation' = <<>>
  /\ lastQuery' = Null
  /\ rootQuery' = Null
  /\ query' = <<>>
  /\ isResultMode' = FALSE
  /\ lastCall' = BackClick
  /\ settled' = NoSettle
  /\ UNCHANGED norm
  /\ UNCHANGED <<isSearching, isNewsSession, nextId, inflight, keywords>>

\* reset, the onClick of the back button (lines 181-188, 324-331).
reset ==
  /\ isResultMode
  /\ ~isSearching
  /\ conversation' = <<>>
  /\ lastQuery' = Null
  /\ rootQuery' = Null
  /\ query' = <<>>
  /\ isNewsSession' = FALSE
  /\ isResultMode' = FALSE
  /\ lastCall' = BackClick
  /\ settled' = NoSettle
  /\ UNCHANGED norm
  /\ UNCHANGED <<isSearching, nextId, inflight, keywords>>

----------------------------------------------------------------------------
\* The pipeline after its first suspension (lines 244-306).

\* err.message of the error each external call throws.
ErrMessage(op) ==
  CASE op = "relay" -> <<"Bad Request">>
    [] op = "summarize" -> <<"Failed to generate summary from API.">>
    [] op = "merge" -> <<"Failed to merge summaries.">>
    [] op = "followup" -> <<"Failed to generate answer from API.">>
    [] OTHER -> <<"Failed to generate answer.">>

\* The error rethrown instead of reported.
Catch_Rethrow(p) ==
  /\ isSearching' = FALSE
  /\ inflight' = inflight \ {p}
  /\ settled' = Settled(p, "error", "rejected")
  /\ UNCHANGED norm
  /\ lastCall' = NoCall
  /\ UNCHANGED <<query, keywords, conversation, nextId, lastQuery, rootQuery,
                 isNewsSession, isResultMode>>

\* The lock is not released when the pipeline fails.
Catch_NoFinally(p) ==
  /\ conversation' =
       Append(conversation,
              Msg(nextId, "answer",
                  <<WarnIcon, " ", "Error:", " ">> \o ErrMessage(p.pc),
                  FALSE, Null))
  /\ nextId' = nextId + 1
  /\ inflight' = inflight \ {p}
  /\ settled' = Settled(p, "error", "fulfilled")
  /\ UNCHANGED norm
  /\ lastCall' = NoCall
  /\ UNCHANGED <<query, keywords, isSearching, lastQuery, rootQuery,
                 isNewsSession, isResultMode>>

\* catch (err) { addMsg({ text: ... }) } finally { setIsSearching(false) }
Catch(p) ==
  /\ conversation' =
       Append(conversation,
              Msg(nextId, "answer",
                  <<WarnIcon, " ", "Error:", " ">> \o ErrMessage(p.pc),
                  FALSE, Null))
  /\ nextId' = nextId + 1
  /\ isSearching' = FALSE
  /\ inflight' = inflight \ {p}
  /\ settled' = Settled(p, "error", "fulfilled")
  /\ UNCHANGED norm
  /\ lastCall' = NoCall
  /\ UNCHANGED <<query, keywords, lastQuery, rootQuery, isNewsSession,
                 isResultMode>>

\* The result message (lines 273-282).
newMessage(p, result) ==
  Msg(nextId,
      IF p.mode = "followup" THEN "answer" ELSE "summary",
      result, FALSE,
      <<IF p.mode = "general" THEN SearchIcon ELSE NewsIcon, " ">>
        \o p.currentCleanQuery)

\* Only a new topic replaces the conversation.
Replaces_RssOnly(p) == p.mode = "rss" /\ ~p.forceNew

\* if (forceNew || (mode === "rss" && !forceNew))
Replaces(p) == p.forceNew \/ (p.mode = "rss" /\ ~p.forceNew)

\* The replacement of the conversation does not advance nextId.
Apply_NoIncrement(p, result) ==
  /\ conversation' = IF Replaces(p) THEN <<newMessage(p, result)>>
                     ELSE Append(conversation, newMessage(p, result))
  /\ nextId' = IF Replaces(p) THEN nextId ELSE nextId + 1
  /\ isSearching' = FALSE
  /\ inflight' = inflight \ {p}
  /\ settled' = Settled(p, "result", "fulfilled")
  /\ UNCHANGED norm
  /\ lastCall' = NoCall
  /\ UNCHANGED <<query, keywords, lastQuery, rootQuery, isNewsSession,
                 isResultMode>>

\* The result is applied (lines 273-293) and the lock released (305).
Apply(p, result) ==
  /\ conversation' = IF Replaces(p) THEN <<newMessage(p, result)>>
                     ELSE Append(conversation, newMessage(p, result))
  /\ nextId' = nextId + 1
  /\ isSearching' = FALSE
  /\ inflight' = inflight \ {p}
  /\ settled' = Settled(p, "result", "fulfilled")
  /\ UNCHANGED norm
  /\ lastCall' = NoCall
  /\ UNCHANGED <<query, keywords, lastQuery, rootQuery, isNewsSession,
                 isResultMode>>

\* The pipeline goes on to its next external call.
Continue(p, pc, call) ==
  /\ inflight' = (inflight \ {p}) \cup
                   {[p EXCEPT !.pc = pc, !.calls = Append(@, call)]}
  /\ lastCall' = NoCall
  /\ settled' = NoSettle
  /\ UNCHANGED norm
  /\ UNCHANGED <<query, keywords, conversation, isSearching, lastQuery,
                 rootQuery, isNewsSession, isResultMode, nextId>>

\* fetch("/api/parse-rss") answers ok: summarizeCSV is called (line 255).
RelayOk(p) ==
  /\ p.pc = "relay"
  /\ Continue(p, "summarize", Call("summarizeCSV", p.clean, <<>>))

\* fetch rejects or answers !res.ok (line 254).
RelayFail(p) ==
  /\ p.pc = "relay"
  /\ Catch(p)

\* summarizeCSV returns r: the result for rss, the second argument of
\* mergeSummaries for merge (lines 266, 269).
SummarizeOk(p, r) ==
  /\ p.pc = "summarize"
  /\ IF p.mode = "merge"
     THEN Continue(p, "merge", Call("mergeSummaries", p.summaryText, r))
     ELSE Apply(p, r)

SummarizeFail(p) ==
  /\ p.pc = "summarize"
  /\ Catch(p)

MergeOk(p, r) ==
  /\ p.pc = "merge"
  /\ Apply(p, r)

MergeFail(p) ==
  /\ p.pc = "merge"
  /\ Catch(p)

FollowupOk(p, r) ==
  /\ p.pc = "followup"
  /\ Apply(p, r)

FollowupFail(p) ==
  /\ p.pc = "followup"
  /\ Catch(p)

GeneralOk(p, r) ==
  /\ p.pc = "general"
  /\ Apply(p, r)

GeneralFail(p) ==
  /\ p.pc = "general"
  /\ Catch(p)

----------------------------------------------------------------------------
\* The feed normalizer (src/unnamed/part_001) behind POST /api/parse-rss
\* (src/server/proxy.ts).
\*
\* A feed is the sequence of its <item> elements. The text of a title is a
\* sequence of characters; a source url and a publish date are sequences
\* of the tokens the code looks for ("https://", "www.", " GMT") and of
\* opaque rests. A date token of DateMs stands for a date text that
\* Date accepts; any other text is not a date.

\* JavaScript undefined: what entry?.title, entry?.pubDate and
\* entry?.source?.["url"] give for an item that lacks the element or the
\* attribute.
Undefined == <<"undefined">>

\* A JavaScript number: an integer or NaN.
Num(n) == [nan |-> FALSE, n |-> n]
NaN == [nan |-> TRUE, n |-> 0]

\* The characters of the titles.
TitleChars == {"a", " ", "-", "|", "\n"}

Titles == UNION { [1..n -> TitleChars] : n \in 0..MaxTitle }

\* The accepted date texts and the time (ms) each denotes.
DateMs(d) ==
  CASE d = "D1" -> 1000
    [] d = "D2" -> 2000
    [] OTHER -> 0

\* The items feeds are made of: complete items (two of them with the same
\* publish date), an item whose date is no date, and items that lack the
\* source url, the title or the publish date.
EntryPool ==
  { [source |-> <<"https://", "www.", "p">>,
     title |-> <<"a", " ", "-", " ", "b">>, pubDate |-> <<"D1", " GMT">>],
    [source |-> <<"q">>,
     title |-> <<"b", " ", "-", " ", "a">>, pubDate |-> <<"D2", " GMT">>],
    [source |-> <<"www.", "p">>,
     title |-> <<"a", "|", "b", " ", "-", " ", "a">>, pubDate |-> <<"D2">>],
    [source |-> <<"p">>,
     title |-> <<"a", " ", "-", " ", "b">>, pubDate |-> <<"soon">>],
    [source |-> Undefined,
     title |-> <<"a", " ", "-", " ", "b">>, pubDate |-> <<"D1", " GMT">>],
    [source |-> <<"p">>,
     title |-> Undefined, pubDate |-> <<"D1", " GMT">>],
    [source |-> <<"p">>,
     title |-> <<"a", " ", "-", " ", "b">>, pubDate |-> Undefined] }

Feeds == UNION { [1..n -> EntryPool] : n \in 0..MaxEntries }

\* s is a prefix of t
IsPrefix(s, t) == Len(s) <= Len(t) /\ SubSeq(t, 1, Len(s)) = s

\* String.prototype.indexOf, counted from 1; 0 when sep does not occur
IndexOf(t, sep) ==
  LET at == { i \in 1..Len(t) : IsPrefix(sep, SubSeq(t, i, Len(t))) }
  IN IF at = {} THEN 0 ELSE CHOOSE i \in at : \A j \in at : i <= j

\* str.replace(tok, ""), on a sequence of tokens: the first occurrence of
\* tok is removed
RemoveFirst(t, tok) ==
  LET i == IndexOf(t, <<tok>>)
  IN IF i = 0 THEN t ELSE SubSeq(t, 1, i - 1) \o SubSeq(t, i + 1, Len(t))

\* str.replace(/\n/g, "")
RECURSIVE RemoveNewlines(_)
RemoveNewlines(t) ==
  IF t = <<>> THEN <<>>
  ELSE IF Head(t) = "\n" THEN RemoveNewlines(Tail(t))
       ELSE <<Head(t)>> \o RemoveNewlines(Tail(t))

\* String.prototype.split(sep), sep not empty
RECURSIVE Split(_, _)
Split(t, sep) ==
  LET i == IndexOf(t, sep)
  IN IF i = 0 THEN <<t>>
     ELSE <<SubSeq(t, 1, i - 1)>> \o Split(SubSeq(t, i + Len(sep), Len(t)), sep)

\* String.prototype.split(/\s+/)
RECURSIVE SplitWs(_)
SplitWs(t) ==
  LET at == { i \in 1..Len(t) : IsSpace(t[i]) }
  IN IF at = {} THEN <<t>>
     ELSE LET i == CHOOSE k \in at : \A j \in at : k <= j
          IN <<SubSeq(t, 1, i - 1)>>
               \o SplitWs(TrimStart(SubSeq(t, i, Len(t))))

\* Array.prototype.join(sep)
RECURSIVE Join(_, _)
Join(parts, sep) ==
  IF parts = <<>> THEN <<>>
  ELSE IF Len(parts) = 1 THEN parts[1]
       ELSE parts[1] \o sep \o Join(Tail(parts), sep)

\* Array.prototype.slice(0, -1)
SliceButLast(parts) == SubSeq(parts, 1, Len(parts) - 1)

\* The headline of an entry title (lines 31-34).
newsHeadline(t) ==
  LET h1 == RemoveNewlines(t)
      h2 == Join(SliceButLast(Split(h1, <<" ", "-", " ">>)), <<" ">>)
      h3 == Trim(Split(h2, <<"|">>)[1])
  IN Join(SplitWs(h3), <<" ">>)

\* publisher.replace("https://", "").replace("www.", "") (line 29)
publisher(url) == RemoveFirst(RemoveFirst(url, "https://"), "www.")

\* new Date(text).getTime(): the time of an accepted date text followed by
\* " UTC", NaN for any other text
getTime(text) ==
  IF Len(text) = 2 /\ DateMs(text[1]) # 0 /\ text[2] = " UTC"
  THEN Num(DateMs(text[1])) ELSE NaN

\* Math.floor(ms / 1000)
FloorSeconds(ms) == IF ms.nan THEN NaN ELSE Num(ms.n \div 1000)

\* published.replace(" GMT", ""); new Date(published + " UTC");
\* Math.floor(dt.getTime() / 1000) (lines 36-38)
unixTime(pubDate) ==
  FloorSeconds(getTime(Append(RemoveFirst(pubDate, " GMT"), " UTC")))

\* data?.rss?.channel?.item ?? []: the parser gives an array for repeated
\* <item> elements, nothing for none and a single object, which has no
\* map method, for one.
EntriesIsArray(f) == Len(f) # 1

\* The callback of entries.map throws a TypeError when it calls replace on
\* undefined (lines 29, 31, 36).
MapThrows(e) ==
  e.source = Undefined \/ e.title = Undefined \/ e.pubDate = Undefined

\* parseRSS throws.
Throws(f) == ~EntriesIsArray(f) \/ \E i \in 1..Len(f) : MapThrows(f[i])

\* The rows entries.map returns (lines 24-41); entry is the position of
\* the item in the feed (a ghost field, not part of the output).
parsed(f) ==
  [i \in 1..Len(f) |->
     [unixTime |-> unixTime(f[i].pubDate),
      newsHeadline |-> newsHeadline(f[i].title),
      publisher |-> publisher(f[i].source),
      entry |-> i]]

\* (a, b) => b.unixTime - a.unixTime is negative: a goes before b
Before(a, b) ==
  ~a.unixTime.nan /\ ~b.unixTime.nan /\ b.unixTime.n - a.unixTime.n < 0

RECURSIVE Insert(_, _)
Insert(rows, r) ==
  IF rows = <<>> THEN <<r>>
  ELSE IF Before(r, Head(rows)) THEN <<r>> \o rows
       ELSE <<Head(rows)>> \o Insert(Tail(rows), r)

\* Array.prototype.sort with a consistent comparator: the stable sort.
RECURSIVE StableSort(_)
StableSort(rows) ==
  IF rows = <<>> THEN <<>>
  ELSE Insert(StableSort(SubSeq(rows, 1, Len(rows) - 1)), rows[Len(rows)])

\* The comparator of line 43 gives NaN, which sort takes as 0, when a
\* unixTime is NaN: it is a consistent comparator unless a NaN row comes
\* with two rows of different times.
Consistent(rows) ==
  \/ \A i \in 1..Len(rows) : ~rows[i].unixTime.nan
  \/ \A i, j \in 1..Len(rows) :
       (~rows[i].unixTime.nan /\ ~rows[j].unixTime.nan)
         => rows[i].unixTime.n = rows[j].unixTime.n

Orders(rows) ==
  { [i \in 1..Len(rows) |-> rows[f[i]]] :
      f \in { g \in [1..Len(rows) -> 1..Len(rows)] :
                \A i, j \in 1..Len(rows) : i # j => g[i] # g[j] } }

\* parsed.sort((a, b) => b.unixTime - a.unixTime) (line 43): with a
\* comparator that is not consistent the order is implementation-defined.
SortOutcomes(rows) ==
  IF Consistent(rows) THEN {StableSort(rows)} ELSE Orders(rows)

\* No request has been answered.
NoResp == [status |-> 0, rows |-> <<>>]

\* res.send(result): the rows of the output, one per line
Send(rows) == [status |-> 200, rows |-> rows]

\* res.status(400).send(String(err.message ?? err))
BadRequest == [status |-> 400, rows |-> <<>>]

\* POST /api/parse-rss for a feed that has been fetched (proxy.ts lines
\* 21-32, parseRSS lines 15-54).
ParseRss ==
  /\ resp = NoResp
  /\ IF Throws(feed)
     THEN resp' = BadRequest
     ELSE \E rows \in SortOutcomes(parsed(feed)) : resp' = Send(rows)
  /\ UNCHANGED <<query, keywords, session, lastCall, settled, feed, title,
                 headline>>

\* POST /api/parse-rss when new URL or the fetch of the feed throws.
FetchFails ==
  /\ resp = NoResp
  /\ resp' = BadRequest
  /\ UNCHANGED <<query, keywords, session, lastCall, settled, feed, title,
                 headline>>

\* The headline of one entry title is computed (lines 31-34).
MapHeadline ==
  /\ headline = Undefined
  /\ headline' = newsHeadline(title)
  /\ UNCHANGED <<query, keywords, session, lastCall, settled, feed, resp,
                 title>>

----------------------------------------------------------------------------

\* The session before any event.
InitSession ==
  /\ query = <<>>
  /\ conversation = <<>>
  /\ isSearching = FALSE
  /\ keywords = <<>>
  /\ lastQuery = Null
  /\ rootQuery = Null
  /\ isNewsSession = FALSE
  /\ isResultMode = FALSE
  /\ nextId = 0
  /\ inflight = {}
  /\ lastCall = NoCall
  /\ settled = NoSettle

Init ==
  /\ InitSession
  /\ feed = <<>>
  /\ resp = NoResp
  /\ title = <<>>
  /\ headline = Undefined

Next ==
  \/ KeywordsLoaded
  \/ \E t \in Typed : OnChange(t)
  \/ OnKeyDownEnter
  \/ \E i \in 1..Len(keywords) : OnKeywordClick(i)
  \/ OnRefreshClick
  \/ reset
  \/ \E p \in inflight : RelayOk(p)
  \/ \E p \in inflight : RelayFail(p)
  \/ \E p \in inflight, r \in Results : SummarizeOk(p, r)
  \/ \E p \in inflight : SummarizeFail(p)
  \/ \E p \in inflight, r \in Results : MergeOk(p, r)
  \/ \E p \in inflight : MergeFail(p)
  \/ \E p \in inflight, r \in Results : FollowupOk(p, r)
  \/ \E p \in inflight : FollowupFail(p)
  \/ \E p \in inflight, r \in Results : GeneralOk(p, r)
  \/ \E p \in inflight : GeneralFail(p)

Spec == Init /\ [][Next]_vars

\* A step of a pipeline in flight: one of its external calls returns or
\* throws.
PipelineStep ==
  \E p \in inflight :
    \/ RelayOk(p) \/ RelayFail(p)
    \/ SummarizeFail(p) \/ MergeFail(p) \/ FollowupFail(p) \/ GeneralFail(p)
    \/ \E r \in Results :
         SummarizeOk(p, r) \/ MergeOk(p, r) \/ FollowupOk(p, r) \/ GeneralOk(p, r)

\* Every external call eventually returns or throws.
LiveSpec == Spec /\ WF_vars(PipelineStep)

\* The normalizer applied to every feed of at most MaxEntries items.
NormInit ==
  /\ InitSession
  /\ feed \in Feeds
  /\ resp = NoResp
  /\ title = <<>>
  /\ headline = Undefined

NormNext == ParseRss \/ FetchFails

NormSpec == NormInit /\ [][NormNext]_vars

\* The headline of every title of at most MaxTitle characters.
HeadlineInit ==
  /\ InitSession
  /\ feed = <<>>
  /\ resp = NoResp
  /\ title \in Titles
  /\ headline = Undefined

HeadlineNext == MapHeadline

HeadlineSpec == HeadlineInit /\ [][HeadlineNext]_vars

----------------------------------------------------------------------------
\* Properties.

\* C1: at most one query pipeline is in flight, and isSearching is true as
\* long as one is, whatever submit events arrive meanwhile.
C1_SinglePipeline ==
  /\ Cardinality(inflight) <= 1
  /\ inflight # {} => isSearching

\* A submit event has arrived while a pipeline was past its first call.
C1_Witness ==
  /\ lastCall.busy
  /\ \E p \in inflight : p.pc = "summarize" /\ ~p.forceNew

\* C2: a submit event that arrives while isSearching is true changes
\* nothing of the session: conversation, rootQuery, lastQuery,
\* isNewsSession, isResultMode, nextId, and no call is issued.
C2_BusyNoop ==
  [][(lastCall'.ev /\ isSearching) => UNCHANGED session]_vars

\* The refresh button has been clicked while a merge was in flight.
C2_Witness ==
  /\ lastCall.busy /\ lastCall.forceNew
  /\ \E p \in inflight : p.mode = "merge" /\ p.pc = "merge"

\* C3: isSearching is never left set without a pipeline in flight, and a
\* started pipeline eventually clears it.
C3_LockReleased ==
  /\ [](inflight = {} => ~isSearching)
  /\ (isSearching ~> ~isSearching)

\* A pipeline has failed at summarizeCSV and the lock is free again.
C3_Witness ==
  /\ settled.how = "error"
  /\ inflight = {}
  /\ ~isSearching
  /\ conversation # <<>>
  /\ conversation[Len(conversation)].text =
       <<WarnIcon, " ", "Error:", " ">> \o ErrMessage("summarize")

\* C4: when an external step of a pipeline fails, exactly one error message
\* (not a user message, carrying no topic label) is appended to the
\* conversation, no result message is added, and executeSearch does not
\* reject; while the pipeline waits the conversation does not change.
C4_FailureReported ==
  [][/\ (inflight # {} /\ inflight' = {} /\ settled'.how = "error") =>
          /\ settled'.promise = "fulfilled"
          /\ Len(conversation') = Len(conversation) + 1
          /\ SubSeq(conversation', 1, Len(conversation)) = conversation
          /\ LET m == conversation'[Len(conversation')]
             IN /\ ~m.isUser
                /\ m.initialQuery = Null
                /\ m.type # "summary"
                /\ StartsWith(m.text, WarnIcon)
     /\ (inflight # {} /\ inflight' # {}) => conversation' = conversation
    ]_vars

\* A merge has failed at mergeSummaries: the conversation ends with the
\* question followed by the error message.
C4_Witness ==
  /\ settled.how = "error"
  /\ inflight = {}
  /\ Len(conversation) >= 3
  /\ StartsWith(conversation[Len(conversation)].text, WarnIcon)
  /\ StartsWith(conversation[Len(conversation) - 1].text, PlusIcon)

\* C5: an input that is empty after trimming, or that is only the marker
\* "~", or only the marker "+" when merge applies, starts no pipeline and
\* changes nothing of the session; isSearching is false afterwards.
C5_EmptyQueryNoop ==
  [][LET t == Trim(lastCall'.text)
         summaryBearing ==
           \E i \in 1..Len(conversation) : IsNewsSummary(conversation[i])
         blank ==
           \/ t = <<>>
           \/ StartsWith(t, "~") /\ Trim(Slice1(t)) = <<>>
           \/ /\ StartsWith(t, "+") /\ Trim(Slice1(t)) = <<>>
              /\ summaryBearing /\ isNewsSession
     IN (lastCall'.ev /\ ~isSearching /\ blank) =>
          /\ UNCHANGED <<conversation, rootQuery, lastQuery, isNewsSession,
                         isResultMode, nextId, inflight>>
          /\ ~isSearching'
    ]_vars

\* The bare marker "+" has been submitted in a news session that holds a
\* summary, and nothing is in flight.
C5_Witness ==
  /\ lastCall.ev
  /\ lastCall.text = <<"+">>
  /\ ~lastCall.busy
  /\ isNewsSession
  /\ \E i \in 1..Len(conversation) : IsNewsSummary(conversation[i])
  /\ inflight = {}
  /\ ~isSearching

\* C6: the mode of every started pipeline is the one of the precedence
\* rule: general for a "~" input; else merge for a "+" input when a
\* summary-bearing message exists and isNewsSession; else followup when a
\* summary-bearing message exists, forceNew is false and isNewsSession;
\* else rss.
C6_ModeByPrecedence ==
  [][LET summaryBearing ==
           \E i \in 1..Len(conversation) : IsNewsSummary(conversation[i])
         rule(text, forceNew) ==
           IF StartsWith(text, "~") THEN "general"
           ELSE IF StartsWith(text, "+") /\ summaryBearing /\ isNewsSession
                THEN "merge"
           ELSE IF summaryBearing /\ ~forceNew /\ isNewsSession
                THEN "followup"
           ELSE "rss"
     IN \A p \in {q \in inflight' \ inflight : Len(q.calls) = 1} : p.mode = rule(p.text, p.forceNew)
    ]_vars

\* C7: a pipeline in followup or merge mode runs in a conversation that
\* holds a summary-bearing message, and the context it passes to
\* answerFromSummary or mergeSummaries is the text of the most recent one.
C7_SummaryContext ==
  \A p \in inflight :
    p.mode \in {"followup", "merge"} =>
      /\ \E i \in 1..Len(conversation) : IsNewsSummary(conversation[i])
      /\ p.summaryText # <<>>
      /\ p.summaryText = summaryText
      /\ \A k \in 1..Len(p.calls) :
           p.calls[k].op \in {"answerFromSummary", "mergeSummaries"} =>
             p.calls[k].a = summaryText

\* C8: a pipeline in general or followup mode leaves rootQuery, lastQuery
\* and isNewsSession as they were when it was called, when it starts, while
\* it waits and when it ends; every started pipeline whose input begins
\* with "~" is in general mode.
C8_GeneralFollowupFrame ==
  [][/\ \A p \in inflight' :
          p.mode \in {"general", "followup"} =>
            /\ rootQuery' = p.pre.rootQuery
            /\ lastQuery' = p.pre.lastQuery
            /\ isNewsSession' = p.pre.isNewsSession
     /\ (\E p \in inflight : p.mode \in {"general", "followup"}) =>
          UNCHANGED <<rootQuery, lastQuery, isNewsSession>>
     /\ \A p \in {q \in inflight' \ inflight : Len(q.calls) = 1} :
          /\ p.pre = [rootQuery |-> rootQuery, lastQuery |-> lastQuery,
                      isNewsSession |-> isNewsSession,
                      conversation |-> conversation]
          /\ StartsWith(p.text, "~") => p.mode = "general"
    ]_vars

\* A general query has been answered in a news session that holds a
\* summary.
C8_Witness ==
  /\ settled.how = "result"
  /\ inflight = {}
  /\ isNewsSession
  /\ rootQuery = <<"a">>
  /\ Len(conversation) >= 3
  /\ conversation[Len(conversation)].type = "summary"
  /\ StartsWith(conversation[Len(conversation)].initialQuery, SearchIcon)

\* C9: a merge of clean query q called with lastQuery = L has the label
\* "L + q", sets lastQuery to it, leaves rootQuery unchanged, and its
\* result is appended to the conversation as a summary carrying the label.
C9_MergeLabel ==
  [][/\ \A p \in {q \in inflight' \ inflight : Len(q.calls) = 1} :
          p.mode = "merge" =>
            /\ p.currentCleanQuery = Str(lastQuery) \o <<" ", "+", " ">> \o p.clean
            /\ lastQuery' = p.currentCleanQuery
            /\ rootQuery' = rootQuery
     /\ \A p \in inflight :
          (p.mode = "merge" /\ inflight' = {} /\ settled'.how = "result") =>
            /\ Len(conversation') = Len(conversation) + 1
            /\ SubSeq(conversation', 1, Len(conversation)) = conversation
            /\ conversation'[Len(conversation')].type = "summary"
            /\ conversation'[Len(conversation')].initialQuery =
                 <<NewsIcon, " ">> \o p.currentCleanQuery
            /\ lastQuery' = p.currentCleanQuery
            /\ rootQuery' = rootQuery
    ]_vars

\* C10: rootQuery changes only when an rss pipeline starts or on reset;
\* an rss pipeline with clean query q starts with rootQuery = q,
\* lastQuery = q and isNewsSession true; no other pipeline writes
\* rootQuery.
C10_RootWrittenByRss ==
  [][/\ rootQuery' # rootQuery =>
          \/ \E p \in inflight' \ inflight : Len(p.calls) = 1 /\ p.mode = "rss"
          \/ /\ rootQuery' = Null /\ conversation' = <<>>
             /\ inflight = {} /\ inflight' = {}
     /\ \A p \in {q \in inflight' \ inflight : Len(q.calls) = 1} :
          IF p.mode = "rss"
          THEN rootQuery' = p.clean /\ lastQuery' = p.clean /\ isNewsSession'
          ELSE rootQuery' = rootQuery
    ]_vars

\* A merge is in flight on a topic set by an earlier rss query.
C10_Witness ==
  \E p \in inflight :
    /\ p.mode = "merge"
    /\ rootQuery = <<"a">>
    /\ lastQuery = <<"a", " ", "+", " ", "a">>

\* C11: when a refresh (forceNew = true) ends with a result, the
\* conversation consists of exactly one message, the new result.
C11_RefreshReplaces ==
  [][\A p \in inflight :
       (p.forceNew /\ inflight' = {} /\ settled'.how = "result") =>
         /\ Len(conversation') = 1
         /\ ~conversation'[1].isUser
         /\ conversation'[1].type = "summary"
         /\ conversation'[1].text \in Results
         /\ conversation'[1].id = nextId
         /\ conversation'[1].initialQuery =
              <<NewsIcon, " ">> \o p.currentCleanQuery
    ]_vars

\* A refresh has succeeded after three ids had been given to earlier
\* messages.
C11_Witness ==
  /\ settled.how = "result"
  /\ settled.forceNew
  /\ settled.mode = "rss"
  /\ Len(conversation) = 1
  /\ conversation[1].id = 3

\* C12: every refresh is an rss query on rootQuery: the pipeline it starts
\* is in rss mode, its relay fetch is for rootQuery, rootQuery is unchanged
\* and lastQuery equals rootQuery.
C12_RefreshIsRss ==
  [][\A p \in {q \in inflight' \ inflight : Len(q.calls) = 1} :
       p.forceNew =>
         /\ p.mode = "rss"
         /\ p.calls[1] = Call("relay", rootQuery, <<>>)
         /\ rootQuery' = rootQuery
         /\ lastQuery' = rootQuery
    ]_vars

\* C13: while a pipeline is in flight rootQuery, lastQuery and
\* isNewsSession have the values they had when it was called, and a
\* pipeline that fails leaves them at those values.
C13_WritesWithResult ==
  [][/\ \A p \in inflight' :
          /\ rootQuery' = p.pre.rootQuery
          /\ lastQuery' = p.pre.lastQuery
          /\ isNewsSession' = p.pre.isNewsSession
     /\ \A p \in inflight :
          (inflight' = {} /\ settled'.how = "error") =>
            /\ rootQuery' = p.pre.rootQuery
            /\ lastQuery' = p.pre.lastQuery
            /\ isNewsSession' = p.pre.isNewsSession
    ]_vars

\* C14: the ids of the messages of the conversation are pairwise distinct
\* and strictly increasing in sequence order, and no id is given twice:
\* every id in use is below nextId, nextId never decreases (reset
\* included), and a message that enters the conversation has an id that
\* nextId had not passed yet.
C14_IdsIncrease ==
  /\ [](/\ \A i, j \in 1..Len(conversation) :
             i < j => conversation[i].id < conversation[j].id
        /\ \A i \in 1..Len(conversation) : conversation[i].id < nextId)
  /\ [][/\ nextId' >= nextId
        /\ \A i \in 1..Len(conversation') :
             (\A j \in 1..Len(conversation) :
                conversation[j] # conversation'[i])
               => conversation'[i].id >= nextId
       ]_vars

\* A replaced conversation (its first message has id 1) to which a
\* question and an error message have been appended.
C14_Witness ==
  /\ Len(conversation) = 3
  /\ conversation[1].id = 1
  /\ conversation[2].isUser
  /\ StartsWith(conversation[3].text, WarnIcon)
  /\ nextId = 4

\* C15: the external calls of one pipeline are ordered and made at most
\* once: relay then summarizeCSV for rss; relay, summarizeCSV, then
\* mergeSummaries for merge; one call and no relay for followup and
\* general. A step adds at most one call to a pipeline, and a failed call
\* ends the pipeline, so no call follows it.
C15_CallOrder ==
  /\ [](\A p \in inflight :
          LET expected ==
                CASE p.mode = "rss" -> <<"relay", "summarizeCSV">>
                  [] p.mode = "merge" ->
                       <<"relay", "summarizeCSV", "mergeSummaries">>
                  [] p.mode = "followup" -> <<"answerFromSummary">>
                  [] OTHER -> <<"generalSearch">>
          IN /\ Len(p.calls) \in 1..Len(expected)
             /\ \A i \in 1..Len(p.calls) : p.calls[i].op = expected[i])
  /\ [][\A p \in inflight :
          /\ settled'.how = "error" => inflight' = {}
          /\ \A q \in inflight' :
               \/ q.calls = p.calls
               \/ /\ Len(q.calls) = Len(p.calls) + 1
                  /\ SubSeq(q.calls, 1, Len(p.calls)) = p.calls
       ]_vars

\* A merge pipeline has made its three calls.
C15_Witness ==
  \E p \in inflight :
    /\ p.mode = "merge"
    /\ Len(p.calls) = 3
    /\ p.calls[3].op = "mergeSummaries"

\* C16: while a new-topic rss pipeline (forceNew = false) is in flight the
\* conversation is empty; while a refresh (forceNew = true) is in flight
\* the messages present when it was called are all still there, in place;
\* and when a refresh fails those messages are retained and exactly one
\* message, the error message, is appended at the end (for a refresh run
\* in rss mode the conversation is then the prior messages followed by the
\* error message and nothing else).
C16_OptimisticClear ==
  /\ [](\A p \in inflight :
          /\ (p.mode = "rss" /\ ~p.forceNew) => conversation = <<>>
          /\ p.forceNew =>
               /\ Len(conversation) >= Len(p.pre.conversation)
               /\ SubSeq(conversation, 1, Len(p.pre.conversation))
                    = p.pre.conversation)
  /\ [][\A p \in inflight :
          (p.forceNew /\ settled'.how = "error") =>
            /\ Len(conversation') = Len(conversation) + 1
            /\ SubSeq(conversation', 1, Len(conversation)) = conversation
            /\ LET e == conversation'[Len(conversation')]
               IN /\ StartsWith(e.text, WarnIcon)
                  /\ ~e.isUser
                  /\ e.type = "answer"
            /\ p.mode = "rss" =>
                 SubSeq(conversation', 1, Len(conversation') - 1)
                   = p.pre.conversation
       ]_vars

\* A refresh of a conversation of three messages has failed.
C16_Witness ==
  /\ settled.how = "error"
  /\ settled.forceNew
  /\ settled.mode = "rss"
  /\ Len(conversation) = 4
  /\ StartsWith(conversation[4].text, WarnIcon)

\* C17: the rows of every output of the normalizer are in non-increasing
\* order of unixTime, and rows of equal unixTime are in the order of their
\* items in the feed (stated for the rows whose unixTime is a number).
C17_SortedStable ==
  resp.status = 200 =>
    \A i, j \in 1..Len(resp.rows) :
      (i < j /\ ~resp.rows[i].unixTime.nan /\ ~resp.rows[j].unixTime.nan) =>
        /\ resp.rows[i].unixTime.n >= resp.rows[j].unixTime.n
        /\ resp.rows[i].unixTime.n = resp.rows[j].unixTime.n
             => resp.rows[i].entry < resp.rows[j].entry

\* C18: the headline of a title is the title with its newlines removed,
\* cut at the last " - " (nothing cut when there is none), then cut at the
\* first "|", then with white space collapsed and trimmed.
C18_HeadlineCut ==
  headline # Undefined =>
    LET sep == <<" ", "-", " ">>
        h1 == RemoveNewlines(title)
        at == { i \in 1..Len(h1) : IsPrefix(sep, SubSeq(h1, i, Len(h1))) }
        h2 == IF at = {} THEN h1
              ELSE SubSeq(h1, 1, (CHOOSE i \in at : \A j \in at : j <= i) - 1)
        bar == IndexOf(h2, <<"|">>)
        h3 == IF bar = 0 THEN h2 ELSE SubSeq(h2, 1, bar - 1)
    IN headline = Trim(Join(SplitWs(h3), <<" ">>))

\* C19: when an item of the feed lacks its source url or has a publish
\* date that is no date, the relay answers with a status that is not 2xx
\* and no rows; and no row of any output has a unixTime that is not a
\* number.
C19_MalformedEntryFails ==
  resp # NoResp =>
    /\ (\E i \in 1..Len(feed) :
          \/ feed[i].source = Undefined
          \/ feed[i].pubDate = Undefined
          \/ unixTime(feed[i].pubDate).nan)
         => (resp.status \notin 200..299 /\ resp.rows = <<>>)
    /\ \A i \in 1..Len(resp.rows) : ~resp.rows[i].unixTime.nan

\* C20: a click of the back button (possible in every state that is not
\* busy and shows results) leaves the session as it is initially: no
\* message, rootQuery and lastQuery null, isNewsSession false, result mode
\* off, nothing in flight. These values do not depend on the state before,
\* so a second reset changes nothing. A plain input (no "~", no "+")
\* submitted in that state starts an rss pipeline for a new topic, with the
\* effects it has in a fresh session.
C20_ResetInitial ==
  [][/\ lastCall'.back =>
          /\ conversation' = <<>>
          /\ rootQuery' = Null
          /\ lastQuery' = Null
          /\ ~isNewsSession'
          /\ ~isResultMode'
          /\ query' = <<>>
          /\ ~isSearching'
          /\ inflight' = {}
     /\ \A p \in {q \in inflight' \ inflight : Len(q.calls) = 1} :
          ( /\ conversation = <<>>
            /\ rootQuery = Null
            /\ lastQuery = Null
            /\ ~isNewsSession
            /\ ~isResultMode
            /\ ~StartsWith(p.text, "~")
            /\ ~StartsWith(p.text, "+") ) =>
            /\ p.mode = "rss"
            /\ p.calls = <<Call("relay", p.text, <<>>)>>
            /\ conversation' = <<>>
            /\ rootQuery' = p.text
            /\ lastQuery' = p.text
            /\ isNewsSession'
            /\ isResultMode'
    ]_vars

\* A plain input has started an rss pipeline in a session that had been
\* used (two ids given) and reset.
C20_Witness ==
  \E p \in inflight :
    /\ p.mode = "rss"
    /\ ~p.forceNew
    /\ p.pre.conversation = <<>>
    /\ p.pre.rootQuery = Null
    /\ ~p.pre.isNewsSession
    /\ nextId >= 2

\* C21: in a news session with no pipeline running the conversation is
\* never empty; an input the user submits (forceNew = false) in a news
\* session never starts an rss pipeline; and rootQuery, once set, keeps its
\* value in every step but a reset.
C21_RootStable ==
  /\ []((isNewsSession /\ ~isSearching) => conversation # <<>>)
  /\ [][/\ \A p \in {q \in inflight' \ inflight : Len(q.calls) = 1} :
             (isNewsSession /\ ~p.forceNew) => p.mode # "rss"
        /\ (rootQuery # Null /\ ~lastCall'.back) => rootQuery' = rootQuery
       ]_vars

\* In a news session whose first query failed (the conversation holds the
\* error message only) a plain input has started a followup pipeline and
\* rootQuery is what the first query set.
C21_Witness ==
  \E p \in inflight :
    /\ ~p.forceNew
    /\ p.mode = "followup"
    /\ p.pre.isNewsSession
    /\ Len(p.pre.conversation) = 1
    /\ StartsWith(p.pre.conversation[1].text, WarnIcon)
    /\ rootQuery = p.pre.rootQuery
    /\ rootQuery # Null

====
